---- MODULE Spec2Model ----
(***************************************************************************)
(* Order service of src/Kubernetes/Order.py: five FastAPI handlers over a  *)
(* MongoDB collection (orders_collection) and an outbound call to the user *)
(* service.  Each request slot runs one handler; a handler is cut into     *)
(* steps at its store operations and at its awaited outbound call, so that *)
(* requests served by different replicas of the service interleave on the  *)
(* shared collection and with changes inside the user service.             *)
(***************************************************************************)
EXTENDS Integers, Sequences, FiniteSets, TLC

\* ------------------------------------------------------------------ bounds
NumProcs == 2       \* request slots served concurrently
MaxCalls == 1       \* outbound user-service requests in one behaviour

Procs    == 1..NumProcs
Users    == {"u1"}
Products == {"widget", "gadget"}
Amounts  == {1, 2}

\* The string keys of the documents the collection may hold at start, and
\* the ObjectIds the driver hands out afterwards.
LegacyKeys == {1}
FirstOid   == Cardinality(LegacyKeys) + 1

\* ------------------------------------------------------------- identifiers
\* A document key is typed, as in BSON: an ObjectId and the string that
\* spells it are different values.  v numbers the 12-byte value; the string
\* [type |-> "str", v |-> k] is the 24-digit hex text of ObjectId k.
ObjectId(k) == [type |-> "ObjectId", v |-> k]
StrId(k)    == [type |-> "str", v |-> k]

\* str(x): the hex text of an ObjectId, a string unchanged.
Str(id) == [type |-> "str", v |-> id.v]

\* Path parameters are declared order_id: str, so every identifier that
\* arrives from a caller is a string: the legacy keys and the hex text of
\* every ObjectId the driver can hand out.
PathIds == {StrId(k) : k \in LegacyKeys \cup (FirstOid..(FirstOid + MaxCalls - 1))}

\* ---------------------------------------------------------------- pydantic
\* class Order: the bodies POSTed.  create_order never reads product or
\* amount, so one value of each is posted.
Orders == [user_id : Users, product : {"widget"}, amount : {1}]

\* class OrderUpdate: an optional field is the empty set (None) or {value}.
OrderUpdates == [product : {{}} \cup {{x} : x \in Products},
                 amount  : {{}} \cup {{x} : x \in Amounts}]

\* {k: v for k, v in order_update.dict().items() if v is not None}
UpdateDict(order_update) ==
    [k \in {f \in {"product", "amount"} : order_update[f] # {}} |->
        CHOOSE x \in order_update[k] : TRUE]

\* ------------------------------------------------------------------- state
VARIABLES
    store,      \* orders_collection: a set of documents with unique _id
    nextOid,    \* the next ObjectId the driver generates in insert_one
    userDb,     \* user service: the users that exist
    svc,        \* user service: "up", "fault" (answers 500) or "down"
    userCalls,  \* number of outbound requests sent to the user service
    pc,         \* per request slot: the handler step it is at
    order,      \* per request slot: create_order's argument `order`
    order_id,   \* per request slot: update_order's argument `order_id`
    response,   \* per request slot: create_order's local `response`
    sent,       \* the response most recently sent to a client, and its route
    gate        \* per inserted order: the `response` its insert_one ran under

vars == <<store, nextOid, userDb, svc, userCalls, pc, order, order_id, response,
          sent, gate>>

\* ------------------------------------------------------------ the store
\* A filter {"_id": id} matches a document whose key has the same type and
\* the same value.
Matches(doc, id) == doc._id.type = id.type /\ doc._id.v = id.v

\* find_one({"_id": id}): the matching document, or None (the empty set).
FindOne(coll, id) == {doc \in coll : Matches(doc, id)}

\* update_one(...).matched_count
MatchedCount(coll, id) == Cardinality(FindOne(coll, id))

\* {"$set": update_dict} applied to one document
SetFields(doc, update_dict) ==
    [doc EXCEPT
        !.product = IF "product" \in DOMAIN update_dict
                    THEN update_dict["product"] ELSE @,
        !.amount  = IF "amount" \in DOMAIN update_dict
                    THEN update_dict["amount"] ELSE @]

\* update_one({"_id": id}, {"$set": update_dict}): the collection afterwards
UpdateOne(coll, id, update_dict) ==
    {IF Matches(doc, id) THEN SetFields(doc, update_dict) ELSE doc : doc \in coll}

\* delete_one({"_id": id}): the collection afterwards
DeleteOne(coll, id) == {doc \in coll : ~Matches(doc, id)}

\* insert_one(order_dict): the driver adds a fresh ObjectId as _id
InsertedDoc(order_dict, oid) ==
    [_id |-> oid, user_id |-> order_dict.user_id,
     product |-> order_dict.product, amount |-> order_dict.amount]

\* order["_id"] = str(order["_id"])
Render(doc) == [doc EXCEPT !._id = Str(doc._id)]

\* ------------------------------------------------------- the user service
\* GET {USER_SERVICE_URL}/users/{user_id}: a response, or a transport
\* error raised by httpx when the service cannot be reached.
UserServiceGet(user_id) ==
    IF svc = "down" THEN [raised |-> TRUE, status_code |-> 0, json |-> [id |-> ""]]
    ELSE IF svc = "fault" THEN [raised |-> FALSE, status_code |-> 500, json |-> [id |-> ""]]
    ELSE IF user_id \in userDb
         THEN [raised |-> FALSE, status_code |-> 200, json |-> [id |-> user_id]]
         ELSE [raised |-> FALSE, status_code |-> 404, json |-> [id |-> ""]]

NoResponse == [raised |-> FALSE, status_code |-> 0, json |-> [id |-> ""]]

\* ------------------------------------------------------------- exceptions
HTTPException(status_code, detail) ==
    [cls |-> "HTTPException", status_code |-> status_code, detail |-> detail]

PyError(cls, text) == [cls |-> cls, status_code |-> 0, detail |-> text]

\* httpx raises it when the user service cannot be reached.
ConnectError == PyError("ConnectError", "All connection attempts failed")

\* order.user_id on the dict that find_one returned.
DictAttribute == PyError("AttributeError", "'dict' object has no attribute 'user_id'")

\* order["_id"] on the None that find_one returned.
NoneSubscript == PyError("TypeError", "'NoneType' object is not subscriptable")

\* Every class raised in the handlers derives from Exception,
\* fastapi.HTTPException included.
IsException(e) ==
    e.cls \in {"HTTPException", "ConnectError", "AttributeError", "TypeError"}

\* str(e): starlette renders an HTTPException as "<status_code>: <detail>",
\* any other exception as its message.
StrExc(e) ==
    IF e.cls = "HTTPException"
    THEN ToString(e.status_code) \o ": " \o e.detail
    ELSE e.detail

\* except Exception as e: raise HTTPException(status_code=500, detail=str(e))
ExceptClause(e) ==
    IF IsException(e) THEN HTTPException(500, StrExc(e)) ELSE e

\* What the client receives when the handler raises e inside its try block.
Raised(e) ==
    LET out == ExceptClause(e)
    IN  [status |-> out.status_code, kind |-> "detail", body |-> out.detail]

\* What the client receives when the handler returns value; kind names the
\* shape of the JSON body ("order", "orders" or "message").
Returned(kind, value) == [status |-> 200, kind |-> kind, body |-> value]

NoResp  == [status |-> 0, kind |-> "none", body |-> ""]
NoOrder == [user_id |-> "", product |-> "", amount |-> 0]
NoId    == StrId(0)

\* -------------------------------------------------------------------- Init
\* The collection outlives the process and is shared with whatever else
\* writes to the database: it may already hold documents whose _id is a
\* string.  The service itself only ever inserts ObjectId-keyed documents.
LegacyDocs ==
    {[_id |-> StrId(k), user_id |-> "u1", product |-> "widget", amount |-> 1] :
        k \in LegacyKeys}

Init ==
    /\ store \in SUBSET LegacyDocs
    /\ nextOid = FirstOid
    /\ userDb \in SUBSET Users
    /\ svc = "up"
    /\ userCalls = 0
    /\ pc = [p \in Procs |-> "idle"]
    /\ order = [p \in Procs |-> NoOrder]
    /\ order_id = [p \in Procs |-> NoId]
    /\ response = [p \in Procs |-> NoResponse]
    /\ sent = [seq |-> 0, op |-> "none", resp |-> NoResp]
    /\ gate = {}

\* The handler of slot p ends: r goes to the client and the locals are gone.
\* seq alternates, so that every response sent is a change of `sent`.
Finish(p, op, r) ==
    /\ pc' = [pc EXCEPT ![p] = "idle"]
    /\ order' = [order EXCEPT ![p] = NoOrder]
    /\ order_id' = [order_id EXCEPT ![p] = NoId]
    /\ response' = [response EXCEPT ![p] = NoResponse]
    /\ sent' = [seq |-> 1 - sent.seq, op |-> op, resp |-> r]

\* ----------------------------------------------------------- create_order
\* CheckFailed with the test narrowed to `== 404`: an upstream 500 passes.
CheckFailed_Only404(r) == r.status_code = 404

\* response.status_code != 200
CheckFailed(r) == r.status_code # 200

\* CreateCheck with the transport error swallowed (`except httpx.HTTPError:
\* pass` around the GET): the handler goes on to insert_one.
CreateCheck_SwallowsTransportError(p, o) ==
    /\ pc[p] = "idle"
    /\ userCalls < MaxCalls
    /\ userCalls' = userCalls + 1
    /\ LET r == UserServiceGet(o.user_id) IN
        IF ~r.raised /\ CheckFailed(r)
        THEN Finish(p, "create_order", Raised(HTTPException(404, "User not found")))
        ELSE /\ pc' = [pc EXCEPT ![p] = "create_insert"]
             /\ order' = [order EXCEPT ![p] = o]
             /\ response' = [response EXCEPT ![p] = r]
             /\ UNCHANGED <<order_id, sent>>
    /\ UNCHANGED <<store, nextOid, userDb, svc, gate>>

\* Lines 32-35: the awaited GET and the status check.
CreateCheck(p, o) ==
    /\ pc[p] = "idle"
    /\ userCalls < MaxCalls
    /\ userCalls' = userCalls + 1
    /\ LET r == UserServiceGet(o.user_id) IN
        IF r.raised
        THEN Finish(p, "create_order", Raised(ConnectError))
        ELSE IF CheckFailed(r)
        THEN Finish(p, "create_order", Raised(HTTPException(404, "User not found")))
        ELSE /\ pc' = [pc EXCEPT ![p] = "create_insert"]
             /\ order' = [order EXCEPT ![p] = o]
             /\ response' = [response EXCEPT ![p] = r]
             /\ UNCHANGED <<order_id, sent>>
    /\ UNCHANGED <<store, nextOid, userDb, svc, gate>>

\* Lines 37-40: insert_one and the returned dict.
CreateInsert(p) ==
    /\ pc[p] = "create_insert"
    /\ LET doc == InsertedDoc(order[p], ObjectId(nextOid)) IN
        /\ store' = store \cup {doc}
        /\ nextOid' = nextOid + 1
        /\ gate' = gate \cup {[_id |-> doc._id, user_id |-> doc.user_id,
                               response |-> response[p]]}
        /\ Finish(p, "create_order", Returned("order", Render(doc)))
    /\ UNCHANGED <<userDb, svc, userCalls>>

\* -------------------------------------------------------------- get_order
\* Lines 47-61.  The found document is a dict, so order.user_id raises
\* AttributeError while the request URL is being built: no request is sent.
GetOrder(p, id) ==
    /\ pc[p] = "idle"
    /\ IF FindOne(store, id) = {}
       THEN Finish(p, "get_order", Raised(HTTPException(404, "Order not found")))
       ELSE Finish(p, "get_order", Raised(DictAttribute))
    /\ UNCHANGED <<store, nextOid, userDb, svc, userCalls, gate>>

\* ------------------------------------------------------------ list_orders
\* ListOrders with a per-item existence check, as get_order intends for its
\* single item: one outbound request per stored order.
ListOrders_ChecksEachUser(p) ==
    /\ pc[p] = "idle"
    /\ userCalls' = userCalls + Cardinality(store)
    /\ Finish(p, "list_orders", Returned("orders", {Render(doc) : doc \in store}))
    /\ UNCHANGED <<store, nextOid, userDb, svc, gate>>

\* Lines 66-69.
ListOrders(p) ==
    /\ pc[p] = "idle"
    /\ Finish(p, "list_orders", Returned("orders", {Render(doc) : doc \in store}))
    /\ UNCHANGED <<store, nextOid, userDb, svc, userCalls, gate>>

\* ----------------------------------------------------------- update_order
\* Lines 76-81: the field filter, update_one and the matched_count check.
UpdateStep(p, id, order_update) ==
    /\ pc[p] = "idle"
    /\ LET update_dict == UpdateDict(order_update) IN
        IF DOMAIN update_dict = {}
        THEN /\ Finish(p, "update_order", Raised(HTTPException(400, "No fields to update")))
             /\ store' = store
        ELSE /\ store' = UpdateOne(store, id, update_dict)
             /\ IF MatchedCount(store, id) = 0
                THEN Finish(p, "update_order", Raised(HTTPException(404, "Order not found")))
                ELSE /\ pc' = [pc EXCEPT ![p] = "update_refetch"]
                     /\ order_id' = [order_id EXCEPT ![p] = id]
                     /\ UNCHANGED <<order, response, sent>>
    /\ UNCHANGED <<nextOid, userDb, svc, userCalls, gate>>

\* Lines 82-84: find_one again; order["_id"] on None raises TypeError.
UpdateRefetch(p) ==
    /\ pc[p] = "update_refetch"
    /\ LET found == FindOne(store, order_id[p]) IN
        IF found = {}
        THEN Finish(p, "update_order", Raised(NoneSubscript))
        ELSE Finish(p, "update_order", Returned("order", Render(CHOOSE doc \in found : TRUE)))
    /\ UNCHANGED <<store, nextOid, userDb, svc, userCalls, gate>>

\* ----------------------------------------------------------- delete_order
\* Lines 91-94.
DeleteOrder(p, id) ==
    /\ pc[p] = "idle"
    /\ store' = DeleteOne(store, id)
    /\ IF MatchedCount(store, id) = 0
       THEN Finish(p, "delete_order", Raised(HTTPException(404, "Order not found")))
       ELSE Finish(p, "delete_order", Returned("message", "Order deleted"))
    /\ UNCHANGED <<nextOid, userDb, svc, userCalls, gate>>

\* ------------------------------------------------ the user service changes
UserAdded(u) ==
    /\ u \notin userDb
    /\ userDb' = userDb \cup {u}
    /\ UNCHANGED <<store, nextOid, svc, userCalls, pc, order, order_id, response,
                   sent, gate>>

UserRemoved(u) ==
    /\ u \in userDb
    /\ userDb' = userDb \ {u}
    /\ UNCHANGED <<store, nextOid, svc, userCalls, pc, order, order_id, response,
                   sent, gate>>

ServiceMode(m) ==
    /\ svc # m
    /\ svc' = m
    /\ UNCHANGED <<store, nextOid, userDb, userCalls, pc, order, order_id, response,
                   sent, gate>>

Next ==
    \/ \E p \in Procs, o \in Orders : CreateCheck(p, o)
    \/ \E p \in Procs : CreateInsert(p)
    \/ \E p \in Procs, id \in PathIds : GetOrder(p, id)
    \/ \E p \in Procs : ListOrders(p)
    \/ \E p \in Procs, id \in PathIds, u \in OrderUpdates : UpdateStep(p, id, u)
    \/ \E p \in Procs : UpdateRefetch(p)
    \/ \E p \in Procs, id \in PathIds : DeleteOrder(p, id)
    \/ \E u \in Users : UserAdded(u)
    \/ \E u \in Users : UserRemoved(u)
    \/ \E m \in {"up", "fault", "down"} : ServiceMode(m)

Spec == Init /\ [][Next]_vars

\* ================================================================ claims
\* The stored orders a caller names by the string id: the ones whose key,
\* rendered as the service renders it in its responses, is id.
Named(id) == {d \in store : Str(d._id) = id}

\* The stored orders that create_order inserted.
Created == {d \in store : \E g \in gate : g._id = d._id}

EmptyUpdate == [product |-> {}, amount |-> {}]

\* C1: a create_order whose existence check gets a non-200 response answers
\* 404 and leaves the store as it was.
C1_NotFoundAnswers404 ==
    [][\A p \in Procs, o \in Orders :
        (CreateCheck(p, o) /\ ~UserServiceGet(o.user_id).raised
                           /\ UserServiceGet(o.user_id).status_code # 200)
        => (sent'.resp.status = 404 /\ store' = store)]_vars

\* C2: a create_order whose existence check cannot reach the user service
\* answers 500, leaves the store as it was and never reaches insert_one.
C2_UnreachableAnswers500 ==
    [][\A p \in Procs, o \in Orders :
        (CreateCheck(p, o) /\ UserServiceGet(o.user_id).raised)
        => /\ sent'.seq # sent.seq
           /\ sent'.resp.status = 500
           /\ store' = store
           /\ pc'[p] = "idle"]_vars

C2_Witness ==
    /\ svc = "down"
    /\ userCalls > 0
    /\ sent.op = "create_order"
    /\ sent.resp.status = 500
    /\ sent.resp.body = StrExc(ConnectError)

\* C3: create_order for a user that is found answers 200 with a string id,
\* and get_order on that id, while the user is still found, answers 200 with
\* {order, user}: the created order and the user service's body.
C3_CreateThenGet ==
    [][/\ \A p \in Procs :
            CreateInsert(p) =>
                /\ sent'.resp.status = 200
                /\ sent'.resp.body._id.type = "str"
       /\ \A p \in Procs, id \in PathIds :
            (GetOrder(p, id) /\ \E d \in Created :
                                  /\ Str(d._id) = id
                                  /\ UserServiceGet(d.user_id).status_code = 200)
            => /\ sent'.resp.status = 200
               /\ \E d \in Created :
                    /\ Str(d._id) = id
                    /\ sent'.resp.body = [order |-> Render(d),
                                          user |-> UserServiceGet(d.user_id).json]]_vars

\* C4: whenever insert_one runs for a create_order, the order's user exists
\* in the user service at that instant.
C4_UserExistsAtInsert ==
    [][\A p \in Procs : CreateInsert(p) => order[p].user_id \in userDb]_vars

\* C4 (amended): every stored order that create_order inserted has a user_id
\* for which the user service answered that request's existence check with
\* 200, before the insert.
C4_UserFoundByCheck ==
    \A d \in store :
        d._id.type = "ObjectId" =>
            \E g \in gate :
                /\ g._id = d._id
                /\ g.user_id = d.user_id
                /\ g.response.status_code = 200
                /\ g.response.json.id = d.user_id

C4_Witness ==
    \E d \in Created : d.user_id \notin userDb

\* C5: update_order on the id of a stored order with only amount supplied
\* sets that order's amount, changes nothing else in the store, and answers
\* 200 with the merged record.
C5_AmountOnlyUpdate ==
    [][/\ \A p \in Procs, id \in PathIds, a \in Amounts :
            (UpdateStep(p, id, [product |-> {}, amount |-> {a}]) /\ Named(id) # {})
            => /\ pc'[p] = "update_refetch"
               /\ store' = {IF Str(d._id) = id THEN [d EXCEPT !.amount = a] ELSE d :
                               d \in store}
       /\ \A p \in Procs :
            (UpdateRefetch(p) /\ Named(order_id[p]) # {})
            => /\ sent'.resp.status = 200
               /\ sent'.resp.body \in {Render(d) : d \in Named(order_id[p])}]_vars

\* C6: update_order with no non-null field answers 400 for any id and
\* leaves the store as it was.
C6_EmptyUpdateAnswers400 ==
    [][\A p \in Procs, id \in PathIds :
        UpdateStep(p, id, EmptyUpdate)
        => (sent'.resp.status = 400 /\ store' = store)]_vars

\* C7: delete_order on the id of a stored order answers 200 and removes the
\* order; delete_order on an id that names no stored order (as after the
\* first delete) answers 404 and leaves the store as it was.
C7_DeleteTwice ==
    [][\A p \in Procs, id \in PathIds :
        DeleteOrder(p, id)
        => IF Named(id) # {}
           THEN /\ sent'.resp.status = 200
                /\ store' = store \ Named(id)
           ELSE /\ sent'.resp.status = 404
                /\ store' = store]_vars

\* C8: get_order, update_order (with a non-null field) and delete_order on
\* an id that names no stored order answer 404 and leave the store as it was.
C8_MissingIdAnswers404 ==
    [][\A p \in Procs, id \in PathIds :
        (/\ Named(id) = {}
         /\ \/ GetOrder(p, id)
            \/ DeleteOrder(p, id)
            \/ \E u \in OrderUpdates \ {EmptyUpdate} : UpdateStep(p, id, u))
        => (sent'.resp.status = 404 /\ store' = store)]_vars

\* C9: list_orders sends no request to the user service, leaves the store as
\* it was, and answers 200 with one record per stored order, each with its
\* fields and with its identifier as a string.
C9_ListFrame ==
    [][\A p \in Procs :
        ListOrders(p)
        => /\ userCalls' = userCalls
           /\ store' = store
           /\ sent'.resp.status = 200
           /\ sent'.resp.kind = "orders"
           /\ Cardinality(sent'.resp.body) = Cardinality(store)
           /\ \A d \in store :
                \E r \in sent'.resp.body :
                    /\ r._id.type = "str"
                    /\ r._id.v = d._id.v
                    /\ r.user_id = d.user_id
                    /\ r.product = d.product
                    /\ r.amount = d.amount]_vars

C9_Witness ==
    /\ sent.op = "list_orders"
    /\ sent.resp.kind = "orders"
    /\ \E r \in sent.resp.body :
        \E d \in Created : r._id.type = "str" /\ r._id.v = d._id.v

====
